---- MODULE Spec2Model ----
(***************************************************************************)
(* A model of jwk.go: a client-side cache of a remote JSON Web Key Store.  *)
(*                                                                         *)
(* Callers (goroutines) run GetKeys / GetKey on one JSONWebKeys value.     *)
(* Every statement of GetKeys that touches shared state is one step of the *)
(* calling goroutine, so that every interleaving of the callers is a       *)
(* behaviour of the model.  Snapshots (Certs values) live in `heap`; a     *)
(* pointer to one is its index in the heap, 0 the nil pointer.  Time is    *)
(* a clock counted in seconds.                                             *)
(*                                                                         *)
(* Beside the callers, `fj` follows one refresh statement by statement     *)
(* with the cache-control header as text and durations as 64-bit integers  *)
(* of nanoseconds, and `acc` holds one call of Key.PEM() or Key.RSA().     *)
(***************************************************************************)
EXTENDS Integers, Sequences, FiniteSets, TLC

\* ---------------------------------------------------------------- bounds
MaxCalls == 2        \* GetKeys/GetKey calls started in one behaviour
MaxTime == 2         \* the clock runs from 0 to MaxTime seconds
MaxList == 2         \* length of the key lists a store serves
MaxAge == 1          \* largest max-age digit a response carries
MaxZeros == 19       \* zeros after the leading digit of a long max-age

\* ----------------------------------------------------- program constants
TenHours == 36000    \* time.Hour * 10, in seconds
ConfiguredAge == 2   \* a DefaultCacheAge set by the embedding caller

\* the goroutines sharing the client
Callers == {1, 2}
Nil == 0

\* ------------------------------------------------------------ data model
\* type Key struct: the zero value of a Key
ZeroKey ==
  [Alg |-> "", Kty |-> "", Kid |-> "", Use |-> "", N |-> "", E |-> "", X5c |-> <<>>]

MkKey(kty, kid, use, x5c) ==
  [Alg |-> "RS256", Kty |-> kty, Kid |-> kid, Use |-> use,
   N |-> "3k83", E |-> "AQAB", X5c |-> x5c]

\* The key records a store may publish: signing RSA keys (two of them with
\* the same kid, one without a certificate) and keys the client must drop.
KeyUniverse ==
  { MkKey("RSA", "A", "sig", <<"c1">>),
    MkKey("RSA", "A", "sig", <<"c2", "c3">>),
    MkKey("RSA", "B", "sig", <<>>),
    MkKey("EC",  "B", "sig", <<"c4">>),
    MkKey("RSA", "A", "enc", <<"c5">>) }

\* the kids callers ask for: published ones and one no store publishes
Kids == {"A", "B", "Z"}

\* type jwks struct: the decoded documents, key lists of length 0..MaxKeys
SeqsUpTo(S, n) == UNION { [1..k -> S] : k \in 0..n }
Lists == SeqsUpTo(KeyUniverse, MaxList)
\* the one document served while goroutines race: a signing key and a key to drop
Docs == { <<MkKey("RSA", "A", "sig", <<"c1">>), MkKey("EC", "B", "sig", <<"c4">>)>> }

\* Key.PEM
PEMDropsNewline(k) ==
  IF Len(k.X5c) < 1 THEN ""
  ELSE "-----BEGIN CERTIFICATE-----" \o k.X5c[1] \o "-----END CERTIFICATE-----"

PEMLastCert(k) ==
  IF Len(k.X5c) < 1 THEN ""
  ELSE "-----BEGIN CERTIFICATE-----\n" \o k.X5c[Len(k.X5c)] \o "\n-----END CERTIFICATE-----"

PEM(k) ==
  IF Len(k.X5c) < 1 THEN ""
  ELSE "-----BEGIN CERTIFICATE-----\n" \o k.X5c[1] \o "\n-----END CERTIFICATE-----"

\* withPEMHeaders
withPEMHeaders(key) ==
  "-----BEGIN CERTIFICATE-----\n" \o key \o "\n-----END CERTIFICATE-----"

\* ------------------------------------------------------------ parseCerts
\* keys[key.Kid] = key on a Go map
MapPut(m, k, v) == [x \in (DOMAIN m) \cup {k} |-> IF x = k THEN v ELSE m[x]]

EmptyMap == [x \in {} |-> ZeroKey]

KeepsFirst(m, key) ==
  IF key.Use = "sig" /\ key.Kty = "RSA" /\ key.Kid \notin DOMAIN m
  THEN MapPut(m, key.Kid, key) ELSE m

KeepsAnyRSA(m, key) ==
  IF key.Kty = "RSA" THEN MapPut(m, key.Kid, key) ELSE m

KeepsAnySig(m, key) ==
  IF key.Use = "sig" THEN MapPut(m, key.Kid, key) ELSE m

\* the body of the loop of parseCerts
ParseOne(m, key) ==
  IF key.Use = "sig" /\ key.Kty = "RSA" THEN MapPut(m, key.Kid, key) ELSE m

RECURSIVE ParseKeys(_, _, _)
ParseKeys(m, list, i) ==
  IF i > Len(list) THEN m ELSE ParseKeys(ParseOne(m, list[i]), list, i + 1)

ExpiryDropsAge(t, cacheAge) == t

ExpiryFromEpoch(t, cacheAge) == cacheAge

\* time.Now().Add(cacheAge)
ExpiryOf(t, cacheAge) == t + cacheAge

\* parseCerts: the Certs built from a document at clock value t
parseCerts(doc, cacheAge, t) ==
  [Keys |-> ParseKeys(EmptyMap, doc, 1), Expiry |-> ExpiryOf(t, cacheAge)]

\* ------------------------------------------------------------- fetchJWKS
\* The cache-control header of a response: absent, without a max-age
\* directive, or max-age=<digits> (the regexp group may be empty).
MaxAgeStrings == {<<>>} \cup { <<d>> : d \in 0..MaxAge }
Headers ==
  { [kind |-> "absent", digits |-> <<>>], [kind |-> "nomaxage", digits |-> <<>>] }
    \cup { [kind |-> "maxage", digits |-> ds] : ds \in MaxAgeStrings }

\* strconv.ParseInt(maxAge, 10, 64) on a string of decimal digits
RECURSIVE DigitsValue(_, _)
DigitsValue(ds, i) ==
  IF i = 0 THEN 0 ELSE 10 * DigitsValue(ds, i - 1) + ds[i]

ParseInt(ds) ==
  IF Len(ds) = 0 THEN [err |-> "syntax", val |-> 0]
  ELSE [err |-> "nil", val |-> DigitsValue(ds, Len(ds))]

\* What the HTTP client hands back: a transport error, or a response with a
\* status, a cache-control header and a body that decodes or does not.
Statuses == {200, 500}
ResponsesOver(docs) ==
  { [neterr |-> TRUE, status |-> 0, header |-> [kind |-> "absent", digits |-> <<>>],
     badjson |-> FALSE, doc |-> <<>>] }
  \cup { [neterr |-> FALSE, status |-> s, header |-> h, badjson |-> TRUE, doc |-> <<>>] :
           s \in Statuses, h \in Headers }
  \cup { [neterr |-> FALSE, status |-> s, header |-> h, badjson |-> FALSE, doc |-> d] :
           s \in Statuses, h \in Headers, d \in docs }
Responses == ResponsesOver(Docs)
KeyResponses == ResponsesOver(Lists)

\* j.DefaultCacheAge after lines 193-195
DefaultedAge(age) == IF age = 0 THEN TenHours ELSE age

FetchResultDefaultsBadAge(resp, defaultAge) ==
  IF resp.neterr THEN [res |-> <<>>, cacheAge |-> 0, err |-> "transport"]
  ELSE LET age == DefaultedAge(defaultAge)
           parsed == ParseInt(resp.header.digits)
       IN IF resp.badjson
          THEN [res |-> <<>>, cacheAge |-> 0, err |-> "json"]
          ELSE [res |-> resp.doc,
                cacheAge |-> IF resp.header.kind = "maxage" /\ parsed.err = "nil"
                             THEN parsed.val ELSE age,
                err |-> "nil"]

\* the result (res, cacheAge, err) of fetchJWKS on a response, cacheAge in
\* seconds: the max-age values served to the callers are single digits, for
\* which line 207 is exact (the refresh at machine width follows the rest)
FetchResult(resp, defaultAge) ==
  IF resp.neterr THEN [res |-> <<>>, cacheAge |-> 0, err |-> "transport"]
  ELSE LET age == DefaultedAge(defaultAge)
           parsed == ParseInt(resp.header.digits)
       IN IF resp.header.kind = "maxage" /\ parsed.err # "nil"
          THEN [res |-> <<>>, cacheAge |-> 0, err |-> parsed.err]
          ELSE IF resp.badjson
          THEN [res |-> <<>>, cacheAge |-> 0, err |-> "json"]
          ELSE [res |-> resp.doc,
                cacheAge |-> IF resp.header.kind = "maxage" THEN parsed.val ELSE age,
                err |-> "nil"]

\* what is wrong with a response, judged apart from fetchJWKS
FailureOf(resp) ==
  IF resp.neterr THEN "transport"
  ELSE IF resp.header.kind = "maxage" /\ resp.header.digits = <<>> THEN "maxage"
  ELSE IF resp.badjson THEN "json"
  ELSE "none"

\* ------------------------------------------------------------------ state
VARIABLES
  now,              \* the clock, in seconds
  heap,             \* every Certs allocated so far; a pointer is an index
  cachedCerts,      \* j.cachedCerts
  Client,           \* j.Client: "nil", "custom" or "default"
  DefaultCacheAge,  \* j.DefaultCacheAge, in seconds
  mutexW,           \* certsMutex: the caller inside Lock() (pending or holding)
  mutexWriter,      \* certsMutex: the caller holding the exclusive lock
  mutexReaders,     \* certsMutex: the callers holding the shared lock
  pc,               \* where each caller is
  op,               \* the operation a caller runs: "GetKeys" or "GetKey"
  keyId,            \* the argument of GetKey
  certs,            \* GetKeys: certs (line 140)
  res,              \* GetKeys: res (line 152)
  cacheAge,         \* GetKeys: cacheAge (line 152)
  parsedCerts,      \* GetKeys: parsedCerts (line 157)
  retCerts,         \* what GetKeys returned: the Certs pointer
  retErr,           \* what GetKeys returned: the error
  cert,             \* what GetKey returned: the Key
  keyErr,           \* what GetKey returned: the error
  calls,            \* number of calls started
  installed,        \* the Certs pointers stored in j.cachedCerts, in order
  released,         \* how many of them have had the exclusive lock released
  hist,             \* per caller, what happened in its current call
  fj,               \* a refresh followed statement by statement, at machine width
  acc               \* a call of an accessor of Key: PEM() or RSA()

\* A Certs no pointer reaches any more is garbage: its slot keeps its index
\* (so that indexes stay unique) and loses its contents.
Freed == [Keys |-> EmptyMap, Expiry |-> -1]
Collect(h, live) == [i \in DOMAIN h |-> IF i \in live THEN h[i] ELSE Freed]
Refs(q) == {certs[q], parsedCerts[q], retCerts[q]}

shared == <<heap, cachedCerts, Client, DefaultCacheAge>>
mutex == <<mutexW, mutexWriter, mutexReaders>>
locals == <<certs, res, cacheAge, parsedCerts>>
results == <<retCerts, retErr, cert, keyErr>>
frame == <<op, keyId, locals, results>>
order == <<installed, released>>
aside == <<fj, acc>>
program == <<now, shared, mutex, pc, frame, calls, order, hist>>
vars == <<now, shared, mutex, pc, frame, calls, order, hist, aside>>

\* no refresh is being followed, no accessor is being called
NoRefresh == [pc |-> "none"]
NoAccess == [pc |-> "none"]

\* The record of one call, kept beside the program's own state.  It is
\* written by the steps and read only by the properties.
NoHist ==
  [ floor |-> 0,          \* the value of released when the call started
    seen |-> Nil,         \* the pointer read on line 140
    atCheck |-> "none",   \* the cache as line 143 found it: absent, fresh or stale
    atLock |-> Nil,       \* j.cachedCerts when the exclusive lock was acquired
    fetches |-> 0,        \* HTTP requests performed
    failure |-> "none",   \* what was wrong with the response, if anything
    raw |-> <<>>,         \* the key list the fetch decoded
    ttl |-> 0,            \* the cacheAge the fetch returned
    built |-> "none",     \* the Certs as built: valid (Expiry later than the
                          \* build time) or instant (Expiry at or before it)
    due |-> -1,           \* build time + ttl
    waited |-> 0,         \* seconds gone by from the start of the call to the build
    lag |-> 0 ]           \* seconds gone by from the end of the fetch to the build

ClientInit ==
  /\ now = 0
  /\ heap = <<>>
  /\ cachedCerts = Nil
  /\ \/ Client = "nil" /\ DefaultCacheAge = 0
     \/ Client = "custom" /\ DefaultCacheAge = ConfiguredAge
  /\ mutexW = Nil /\ mutexWriter = Nil /\ mutexReaders = {}
  /\ pc = [p \in Callers |-> "idle"]
  /\ op = [p \in Callers |-> "none"]
  /\ keyId = [p \in Callers |-> ""]
  /\ certs = [p \in Callers |-> Nil]
  /\ res = [p \in Callers |-> <<>>]
  /\ cacheAge = [p \in Callers |-> 0]
  /\ parsedCerts = [p \in Callers |-> Nil]
  /\ retCerts = [p \in Callers |-> Nil]
  /\ retErr = [p \in Callers |-> "nil"]
  /\ cert = [p \in Callers |-> ZeroKey]
  /\ keyErr = [p \in Callers |-> "nil"]
  /\ calls = 0
  /\ installed = <<>>
  /\ released = 0
  /\ hist = [p \in Callers |-> NoHist]

Init == ClientInit /\ fj = NoRefresh /\ acc = NoAccess

\* ---------------------------------------------------------------- actions
\* time passes
Tick ==
  /\ now < MaxTime
  /\ now' = now + 1
  /\ UNCHANGED <<aside, shared, mutex, pc, frame, calls, order, hist>>

\* a goroutine calls j.GetKeys()
CallGetKeys(p) ==
  /\ pc[p] = "idle" /\ calls < MaxCalls
  /\ calls' = calls + 1
  /\ pc' = [pc EXCEPT ![p] = "rlock"]
  /\ op' = [op EXCEPT ![p] = "GetKeys"]
  /\ hist' = [hist EXCEPT ![p].floor = released]
  /\ UNCHANGED <<aside, now, shared, mutex, keyId, locals, results, order>>

\* a goroutine calls j.GetKey(keyId); line 170 calls GetKeys
CallGetKeyOf(p, kids) ==
  /\ pc[p] = "idle" /\ calls < MaxCalls
  /\ calls' = calls + 1
  /\ pc' = [pc EXCEPT ![p] = "rlock"]
  /\ op' = [op EXCEPT ![p] = "GetKey"]
  /\ \E k \in kids : keyId' = [keyId EXCEPT ![p] = k]
  /\ hist' = [hist EXCEPT ![p].floor = released]
  /\ UNCHANGED <<aside, now, shared, mutex, locals, results, order>>

\* racing goroutines ask for a published kid
CallGetKey(p) == CallGetKeyOf(p, {"A"})

RLockIgnoresWriter(p) ==
  /\ pc[p] = "rlock"
  /\ mutexReaders' = mutexReaders \cup {p}
  /\ pc' = [pc EXCEPT ![p] = "read"]
  /\ UNCHANGED <<aside, now, shared, mutexW, mutexWriter, frame, calls, order, hist>>

\* line 139: j.certsMutex.RLock() blocks while a writer is pending or active
RLock(p) ==
  /\ pc[p] = "rlock"
  /\ mutexW = Nil
  /\ mutexReaders' = mutexReaders \cup {p}
  /\ pc' = [pc EXCEPT ![p] = "read"]
  /\ UNCHANGED <<aside, now, shared, mutexW, mutexWriter, frame, calls, order, hist>>

\* line 140: certs := j.cachedCerts
ReadCache(p) ==
  /\ pc[p] = "read"
  /\ certs' = [certs EXCEPT ![p] = cachedCerts]
  /\ hist' = [hist EXCEPT ![p].seen = certs'[p]]
  /\ pc' = [pc EXCEPT ![p] = "runlock"]
  /\ UNCHANGED <<aside, now, shared, mutex, op, keyId, res, cacheAge, parsedCerts,
                 results, calls, order>>

\* line 141: j.certsMutex.RUnlock()
RUnlock(p) ==
  /\ pc[p] = "runlock"
  /\ mutexReaders' = mutexReaders \ {p}
  /\ pc' = [pc EXCEPT ![p] = "check"]
  /\ UNCHANGED <<aside, now, shared, mutexW, mutexWriter, frame, calls, order, hist>>

FreshAtExpiry(c, t) == c # Nil /\ t <= heap[c].Expiry

FreshInverted(c, t) == c # Nil /\ heap[c].Expiry < t

\* lines 142-143: certs != nil && time.Now().Before(certs.Expiry)
Fresh(c, t) == c # Nil /\ t < heap[c].Expiry

\* what line 143 had before it, judged apart from the program's own test
CacheAt(c, t) ==
  IF c = Nil THEN "absent"
  ELSE IF heap[c].Expiry - t >= 1 THEN "fresh" ELSE "stale"

\* lines 142-146: return the cached Certs when fresh, else go on to refresh;
\* returning ends the life of the locals of GetKeys
CheckFresh(p) ==
  /\ pc[p] = "check"
  /\ hist' = [hist EXCEPT ![p].atCheck = CacheAt(certs[p], now)]
  /\ IF Fresh(certs[p], now)
     THEN /\ retCerts' = [retCerts EXCEPT ![p] = certs[p]]
          /\ retErr' = [retErr EXCEPT ![p] = "nil"]
          /\ certs' = [certs EXCEPT ![p] = Nil]
          /\ pc' = [pc EXCEPT ![p] = "returned"]
     ELSE /\ pc' = [pc EXCEPT ![p] = "lock"]
          /\ UNCHANGED <<retCerts, retErr, certs>>
  /\ UNCHANGED <<aside, now, shared, mutex, op, keyId, res, cacheAge, parsedCerts,
                 cert, keyErr, calls, order>>

\* line 149: j.certsMutex.Lock(), first half: take the writers' mutex and
\* announce the writer, which blocks new readers
LockBegin(p) ==
  /\ pc[p] = "lock"
  /\ mutexW = Nil
  /\ mutexW' = p
  /\ pc' = [pc EXCEPT ![p] = "lockwait"]
  /\ UNCHANGED <<aside, now, shared, mutexWriter, mutexReaders, frame, calls, order, hist>>

LockIgnoresReaders(p) ==
  /\ pc[p] = "lockwait"
  /\ mutexW = p
  /\ mutexWriter' = p
  /\ hist' = [hist EXCEPT ![p].atLock = cachedCerts]
  /\ pc' = [pc EXCEPT ![p] = "fetch"]
  /\ UNCHANGED <<aside, now, shared, mutexW, mutexReaders, frame, calls, order>>

LockRechecks(p) ==
  /\ pc[p] = "lockwait"
  /\ mutexW = p
  /\ mutexReaders = {}
  /\ mutexWriter' = p
  /\ hist' = [hist EXCEPT ![p].atLock = cachedCerts]
  /\ IF Fresh(cachedCerts, now)
     THEN /\ retCerts' = [retCerts EXCEPT ![p] = cachedCerts]
          /\ pc' = [pc EXCEPT ![p] = "unlock"]
     ELSE /\ pc' = [pc EXCEPT ![p] = "fetch"]
          /\ UNCHANGED retCerts
  /\ UNCHANGED <<aside, now, shared, mutexW, mutexReaders, op, keyId, locals, retErr,
                 cert, keyErr, calls, order>>

\* line 149: j.certsMutex.Lock(), second half: wait for the active readers
LockAcquire(p) ==
  /\ pc[p] = "lockwait"
  /\ mutexW = p
  /\ mutexReaders = {}
  /\ mutexWriter' = p
  /\ hist' = [hist EXCEPT ![p].atLock = cachedCerts]
  /\ pc' = [pc EXCEPT ![p] = "fetch"]
  /\ UNCHANGED <<aside, now, shared, mutexW, mutexReaders, frame, calls, order>>

\* lines 152-155: res, cacheAge, err := j.fetchJWKS() over the responses
\* the server may give; on an error the call goes on to return (nil, err)
FetchFrom(p, responses) ==
  /\ pc[p] = "fetch"
  /\ Client' = IF Client = "nil" THEN "default" ELSE Client
  /\ \E resp \in responses :
       LET r == FetchResult(resp, DefaultCacheAge) IN
       /\ DefaultCacheAge' = IF resp.neterr THEN DefaultCacheAge
                             ELSE DefaultedAge(DefaultCacheAge)
       /\ res' = [res EXCEPT ![p] = r.res]
       /\ cacheAge' = [cacheAge EXCEPT ![p] = r.cacheAge]
       /\ hist' = [hist EXCEPT ![p].fetches = @ + 1, ![p].failure = FailureOf(resp),
                               ![p].raw = resp.doc, ![p].ttl = r.cacheAge]
       /\ IF r.err # "nil"
          THEN /\ retCerts' = [retCerts EXCEPT ![p] = Nil]
               /\ retErr' = [retErr EXCEPT ![p] = r.err]
               /\ pc' = [pc EXCEPT ![p] = "unlock"]
          ELSE /\ pc' = [pc EXCEPT ![p] = "parse"]
               /\ UNCHANGED <<retCerts, retErr>>
  /\ UNCHANGED <<aside, now, heap, cachedCerts, mutex, op, keyId, certs, parsedCerts,
                 cert, keyErr, calls, order>>

FetchJWKS(p) == FetchFrom(p, Responses)

\* lines 157-160: parsedCerts, err := parseCerts(res, cacheAge); err is nil
ParseCerts(p) ==
  /\ pc[p] = "parse"
  /\ heap' = Append(heap, parseCerts(res[p], cacheAge[p], now))
  /\ parsedCerts' = [parsedCerts EXCEPT ![p] = Len(heap) + 1]
  /\ hist' = [hist EXCEPT
       ![p].built = IF heap'[Len(heap) + 1].Expiry - now >= 1 THEN "valid" ELSE "instant",
       ![p].due = now + cacheAge[p]]
  /\ pc' = [pc EXCEPT ![p] = "install"]
  /\ UNCHANGED <<aside, now, cachedCerts, Client, DefaultCacheAge, mutex, op, keyId, certs,
                 res, cacheAge, results, calls, order>>

InstallStoresStale(p) ==
  /\ pc[p] = "install"
  /\ cachedCerts' = certs[p]
  /\ retCerts' = [retCerts EXCEPT ![p] = parsedCerts[p]]
  /\ retErr' = [retErr EXCEPT ![p] = "nil"]
  /\ pc' = [pc EXCEPT ![p] = "unlock"]
  /\ heap' = Collect(heap, {parsedCerts[p]} \cup UNION { Refs(q) : q \in Callers })
  /\ installed' = Append(installed, certs[p])
  /\ UNCHANGED <<aside, now, Client, DefaultCacheAge, mutex, op, keyId, locals,
                 cert, keyErr, calls, released, hist>>

\* lines 162-164: j.cachedCerts = parsedCerts; return parsedCerts, nil
Install(p) ==
  /\ pc[p] = "install"
  /\ cachedCerts' = parsedCerts[p]
  /\ retCerts' = [retCerts EXCEPT ![p] = parsedCerts[p]]
  /\ retErr' = [retErr EXCEPT ![p] = "nil"]
  /\ pc' = [pc EXCEPT ![p] = "unlock"]
  /\ heap' = Collect(heap, {parsedCerts[p]} \cup UNION { Refs(q) : q \in Callers })
  /\ installed' = Append(installed, parsedCerts[p])
  /\ UNCHANGED <<aside, now, Client, DefaultCacheAge, mutex, op, keyId, locals,
                 cert, keyErr, calls, released, hist>>

UnlockLeaksOnError(p) ==
  /\ pc[p] = "unlock"
  /\ mutexWriter' = IF retErr[p] = "nil" THEN Nil ELSE mutexWriter
  /\ mutexW' = IF retErr[p] = "nil" THEN Nil ELSE mutexW
  /\ certs' = [certs EXCEPT ![p] = Nil]
  /\ res' = [res EXCEPT ![p] = <<>>]
  /\ cacheAge' = [cacheAge EXCEPT ![p] = 0]
  /\ parsedCerts' = [parsedCerts EXCEPT ![p] = Nil]
  /\ pc' = [pc EXCEPT ![p] = "returned"]
  /\ heap' = Collect(heap, {cachedCerts, retCerts[p]}
                             \cup UNION { Refs(q) : q \in Callers \ {p} })
  /\ released' = Len(installed)
  /\ UNCHANGED <<aside, now, cachedCerts, Client, DefaultCacheAge, mutexReaders, op, keyId,
                 results, calls, installed, hist>>

UnlockDropsCacheOnError(p) ==
  /\ pc[p] = "unlock"
  /\ mutexWriter' = Nil
  /\ mutexW' = Nil
  /\ cachedCerts' = IF retErr[p] = "nil" THEN cachedCerts ELSE Nil
  /\ certs' = [certs EXCEPT ![p] = Nil]
  /\ res' = [res EXCEPT ![p] = <<>>]
  /\ cacheAge' = [cacheAge EXCEPT ![p] = 0]
  /\ parsedCerts' = [parsedCerts EXCEPT ![p] = Nil]
  /\ pc' = [pc EXCEPT ![p] = "returned"]
  /\ heap' = Collect(heap, {cachedCerts, retCerts[p]}
                             \cup UNION { Refs(q) : q \in Callers \ {p} })
  /\ released' = Len(installed)
  /\ UNCHANGED <<aside, now, Client, DefaultCacheAge, mutexReaders, op, keyId,
                 results, calls, installed, hist>>

\* line 150: the deferred j.certsMutex.Unlock(), run as GetKeys returns;
\* returning ends the life of the locals of GetKeys
Unlock(p) ==
  /\ pc[p] = "unlock"
  /\ mutexWriter' = Nil
  /\ mutexW' = Nil
  /\ certs' = [certs EXCEPT ![p] = Nil]
  /\ res' = [res EXCEPT ![p] = <<>>]
  /\ cacheAge' = [cacheAge EXCEPT ![p] = 0]
  /\ parsedCerts' = [parsedCerts EXCEPT ![p] = Nil]
  /\ pc' = [pc EXCEPT ![p] = "returned"]
  /\ heap' = Collect(heap, {cachedCerts, retCerts[p]}
                             \cup UNION { Refs(q) : q \in Callers \ {p} })
  /\ released' = Len(installed)
  /\ UNCHANGED <<aside, now, cachedCerts, Client, DefaultCacheAge, mutexReaders, op, keyId,
                 results, calls, installed, hist>>

GetKeyHidesError(c, err, kid) ==
  IF err = "nil" /\ kid \in DOMAIN heap[c].Keys
  THEN [cert |-> heap[c].Keys[kid], err |-> "nil"]
  ELSE [cert |-> ZeroKey, err |-> "notfound"]

\* lines 169-180: what GetKey returns, given what GetKeys returned
GetKeyResult(c, err, kid) ==
  IF err # "nil" THEN [cert |-> ZeroKey, err |-> err]
  ELSE IF kid \in DOMAIN heap[c].Keys
  THEN [cert |-> heap[c].Keys[kid], err |-> "nil"]
  ELSE [cert |-> ZeroKey, err |-> "notfound"]

\* lines 170-180: the rest of GetKey once GetKeys has returned
\* (a caller of GetKeys itself has nothing left to do)
Lookup(p) ==
  /\ pc[p] = "returned"
  /\ IF op[p] = "GetKeys"
     THEN UNCHANGED <<cert, keyErr>>
     ELSE LET r == GetKeyResult(retCerts[p], retErr[p], keyId[p]) IN
          /\ cert' = [cert EXCEPT ![p] = r.cert]
          /\ keyErr' = [keyErr EXCEPT ![p] = r.err]
  /\ pc' = [pc EXCEPT ![p] = "done"]
  /\ UNCHANGED <<aside, now, shared, mutex, op, keyId, locals, retCerts, retErr, calls, order,
                 hist>>

\* the caller has its result and is free to call again
Return(p) ==
  /\ pc[p] = "done"
  /\ pc' = [pc EXCEPT ![p] = "idle"]
  /\ op' = [op EXCEPT ![p] = "none"]
  /\ keyId' = [keyId EXCEPT ![p] = ""]
  /\ retCerts' = [retCerts EXCEPT ![p] = Nil]
  /\ retErr' = [retErr EXCEPT ![p] = "nil"]
  /\ cert' = [cert EXCEPT ![p] = ZeroKey]
  /\ keyErr' = [keyErr EXCEPT ![p] = "nil"]
  /\ hist' = [hist EXCEPT ![p] = NoHist]
  /\ heap' = Collect(heap, {cachedCerts} \cup UNION { Refs(q) : q \in Callers \ {p} })
  /\ UNCHANGED <<aside, now, cachedCerts, Client, DefaultCacheAge, mutex, locals, calls, order>>

Next ==
  \/ Tick
  \/ \E p \in Callers : CallGetKeys(p)
  \/ \E p \in Callers : CallGetKey(p)
  \/ \E p \in Callers : RLock(p)
  \/ \E p \in Callers : ReadCache(p)
  \/ \E p \in Callers : RUnlock(p)
  \/ \E p \in Callers : CheckFresh(p)
  \/ \E p \in Callers : LockBegin(p)
  \/ \E p \in Callers : LockAcquire(p)
  \/ \E p \in Callers : FetchJWKS(p)
  \/ \E p \in Callers : ParseCerts(p)
  \/ \E p \in Callers : Install(p)
  \/ \E p \in Callers : Unlock(p)
  \/ \E p \in Callers : Lookup(p)
  \/ \E p \in Callers : Return(p)

Spec == Init /\ [][Next]_vars

\* Every goroutine that is inside a call keeps being scheduled, and the HTTP
\* request it waits for comes back; nothing obliges anyone to start a call
\* or the clock to move.
Run(p) ==
  \/ RLock(p) \/ ReadCache(p) \/ RUnlock(p) \/ CheckFresh(p)
  \/ LockBegin(p) \/ LockAcquire(p) \/ FetchJWKS(p) \/ ParseCerts(p)
  \/ Install(p) \/ Unlock(p) \/ Lookup(p)

FairSpec == Spec /\ \A p \in Callers : WF_vars(Run(p))

\* The same goroutines under the same scheduling with the clock standing
\* still: whether a call returns does not hang on the time, and both
\* outcomes of the freshness test occur (a Certs with max-age=0 is stale at
\* once, any other is fresh).
LiveNext ==
  \/ \E p \in Callers : CallGetKeys(p)
  \/ \E p \in Callers : CallGetKey(p)
  \/ \E p \in Callers : Run(p)
  \/ \E p \in Callers : Return(p)

LiveSpec == Init /\ [][LiveNext]_vars /\ \A p \in Callers : WF_vars(Run(p))

\* One goroutine alone, the clock standing still, over the longer key lists.
FetchJWKSKeys(p) == FetchFrom(p, KeyResponses)
CallGetKeyAny(p) == CallGetKeyOf(p, Kids)

KeyNext ==
  \/ CallGetKeys(1)
  \/ CallGetKeyAny(1)
  \/ RLock(1)
  \/ ReadCache(1)
  \/ RUnlock(1)
  \/ CheckFresh(1)
  \/ LockBegin(1)
  \/ LockAcquire(1)
  \/ FetchJWKSKeys(1)
  \/ ParseCerts(1)
  \/ Install(1)
  \/ Unlock(1)
  \/ Lookup(1)
  \/ Return(1)

KeySpec == Init /\ [][KeyNext]_vars

\* One goroutine alone with the clock running, the seconds that go by
\* before it builds its Certs counted beside it.
Building(p) == pc[p] \in {"rlock", "read", "runlock", "check", "lock", "lockwait",
                          "fetch", "parse"}

TickWatched ==
  /\ now < MaxTime
  /\ now' = now + 1
  /\ hist' = [p \in Callers |->
                [hist[p] EXCEPT !.waited = IF Building(p) THEN @ + 1 ELSE @,
                                !.lag = IF pc[p] = "parse" THEN @ + 1 ELSE @]]
  /\ UNCHANGED <<aside, shared, mutex, pc, frame, calls, order>>

ClockNext ==
  \/ TickWatched
  \/ CallGetKeys(1)
  \/ RLock(1)
  \/ ReadCache(1)
  \/ RUnlock(1)
  \/ CheckFresh(1)
  \/ LockBegin(1)
  \/ LockAcquire(1)
  \/ FetchJWKS(1)
  \/ ParseCerts(1)
  \/ Install(1)
  \/ Unlock(1)
  \/ Lookup(1)
  \/ Return(1)

ClockSpec == Init /\ [][ClockNext]_vars

\* ------------------------------------------- a refresh at machine width
\* Text is a sequence of characters.  An int64 or a time.Duration is its
\* two's complement, eight bytes, the least significant first.
DigitChars == <<"0", "1", "2", "3", "4", "5", "6", "7", "8", "9">>
IsDigit(c) == \E i \in 1..10 : DigitChars[i] = c
DigitVal(c) == (CHOOSE i \in 1..10 : DigitChars[i] = c) - 1

RECURSIVE Bytes(_, _)
Bytes(n, k) == IF k = 0 THEN <<>> ELSE <<n % 256>> \o Bytes(n \div 256, k - 1)

\* int64(n) for a small n
Word(n) == Bytes(n, 8)

IsNegative(w) == w[8] >= 128

\* w * m + c on bytes, m and c small; the last element is the carry out
RECURSIVE MulAddFrom(_, _, _, _)
MulAddFrom(w, m, c, i) ==
  IF i > Len(w) THEN <<c>>
  ELSE <<(w[i] * m + c) % 256>> \o MulAddFrom(w, m, (w[i] * m + c) \div 256, i + 1)

\* strconv.ParseUint on a run of digits: n = n*10 + d, a range error once n
\* passes 64 bits
RECURSIVE ParseUintFrom(_, _, _)
ParseUintFrom(s, i, w) ==
  IF i > Len(s) THEN [err |-> "nil", val |-> w]
  ELSE IF ~IsDigit(s[i]) THEN [err |-> "syntax", val |-> Word(0)]
  ELSE LET r == MulAddFrom(w, 10, DigitVal(s[i]), 1) IN
       IF r[9] # 0 THEN [err |-> "range", val |-> Word(0)]
       ELSE ParseUintFrom(s, i + 1, SubSeq(r, 1, 8))

\* strconv.ParseInt(maxAge, 10, 64): a syntax error on the empty string, a
\* range error past 1<<63 - 1
ParseInt64(s) ==
  IF Len(s) = 0 THEN [err |-> "syntax", val |-> Word(0)]
  ELSE LET u == ParseUintFrom(s, 1, Word(0)) IN
       IF u.err = "nil" /\ IsNegative(u.val) THEN [err |-> "range", val |-> Word(0)]
       ELSE u

\* the sum of a[i] * b[j] over i + j = k + 1
RECURSIVE Column(_, _, _, _)
Column(a, b, k, i) ==
  IF i > k THEN 0 ELSE a[i] * b[k + 1 - i] + Column(a, b, k, i + 1)

RECURSIVE MulFrom(_, _, _, _)
MulFrom(a, b, k, c) ==
  IF k > 8 THEN <<>>
  ELSE LET s == Column(a, b, k, 1) + c IN
       <<s % 256>> \o MulFrom(a, b, k + 1, s \div 256)

\* a * b on int64: the low 64 bits of the product
Mul64(a, b) == MulFrom(a, b, 1, 0)

\* time.Second, in nanoseconds
Second == Word(1000000000)

\* a number of seconds as a time.Duration
Seconds(n) == Mul64(Word(n), Second)

\* the regexp max-age=([0-9]*) and FindAllStringSubmatch: the leftmost
\* place the literal occurs, and the longest run of digits that follows it
MaxAgeEq == <<"m", "a", "x", "-", "a", "g", "e", "=">>
MatchAt(h, i) == i + 7 <= Len(h) /\ SubSeq(h, i, i + 7) = MaxAgeEq

RECURSIVE DigitRun(_, _)
DigitRun(h, i) ==
  IF i <= Len(h) /\ IsDigit(h[i]) THEN <<h[i]>> \o DigitRun(h, i + 1) ELSE <<>>

\* match[0], when len(match) > 0: the whole match and the group
FindSubmatch(h) ==
  IF \E i \in 1..Len(h) : MatchAt(h, i)
  THEN LET i == CHOOSE i \in 1..Len(h) : MatchAt(h, i) /\ \A j \in 1..(i - 1) : ~MatchAt(h, j)
       IN <<MaxAgeEq \o DigitRun(h, i + 8), DigitRun(h, i + 8)>>
  ELSE <<>>

\* the default of lines 193-195 on a time.Duration
TenHoursDuration == Seconds(TenHours)

KeepsZeroDefault(d) == d

defaultCacheAge(d) == IF d = Word(0) THEN TenHoursDuration ELSE d

MaxAgeOrDefault(maxAge, fallback) ==
  LET r == ParseInt64(maxAge) IN
  IF r.err # "nil" THEN [err |-> "nil", cacheAge |-> fallback]
  ELSE [err |-> "nil", cacheAge |-> Mul64(r.val, Second)]

\* lines 203-207: the cacheAge a matched max-age gives, or the error
maxAgeDuration(maxAge, fallback) ==
  LET r == ParseInt64(maxAge) IN
  IF r.err # "nil" THEN [err |-> r.err, cacheAge |-> Word(0)]
  ELSE [err |-> "nil", cacheAge |-> Mul64(r.val, Second)]

GetChecksStatus(resp) ==
  IF resp.neterr THEN "transport" ELSE IF resp.status >= 400 THEN "status" ELSE "nil"

\* lines 188-191: the error of j.Client.Get
getError(resp) == IF resp.neterr THEN "transport" ELSE "nil"

\* ---- the responses a refresh is followed on
RECURSIVE Zeros(_)
Zeros(k) == IF k = 0 THEN <<>> ELSE <<"0">> \o Zeros(k - 1)

\* the digits after max-age=: none, small numbers, a digit followed by up to
\* MaxZeros zeros, and the numbers either side of the int64 range and of the
\* range of a Duration counted in seconds
AgeDigits ==
  { <<d>> \o Zeros(k) : d \in {"1", "2", "9"}, k \in 0..MaxZeros }
  \cup { <<>>, <<"0">>, <<"0", "7">>, <<"1", "0", "8", "0", "0">>,
         <<"9", "2", "2", "3", "3", "7", "2", "0", "3", "6">>,
         <<"9", "2", "2", "3", "3", "7", "2", "0", "3", "7">>,
         <<"9", "2", "2", "3", "3", "7", "2", "0", "3", "6", "8", "5", "4", "7", "7", "5",
           "8", "0", "7">>,
         <<"9", "2", "2", "3", "3", "7", "2", "0", "3", "6", "8", "5", "4", "7", "7", "5",
           "8", "0", "8">> }

Public == <<"p", "u", "b", "l", "i", "c">>
NoCache == <<"n", "o", "-", "c", "a", "c", "h", "e">>

\* what stands around the digits: other directives before and after, and
\* characters that are no digits right after them
Dressings ==
  { [pre |-> <<>>, junk |-> <<>>, rest |-> <<>>],
    [pre |-> Public \o <<",", " ">>, junk |-> <<>>, rest |-> <<>>],
    [pre |-> <<>>, junk |-> <<>>, rest |-> <<",", " ">> \o Public],
    [pre |-> <<>>, junk |-> <<"a", "b">>, rest |-> <<>>],
    [pre |-> <<>>, junk |-> <<"s">>, rest |-> <<",", " ">> \o Public] }

\* a cache-control header: a max-age directive with its surroundings, or a
\* text without the directive (empty when the header is absent)
HeaderTexts ==
  { [directive |-> TRUE, pre |-> x.pre, digits |-> ds, junk |-> x.junk, rest |-> x.rest] :
      x \in Dressings, ds \in AgeDigits }
  \cup { [directive |-> FALSE, pre |-> t, digits |-> <<>>, junk |-> <<>>, rest |-> <<>>] :
           t \in { <<>>, NoCache, <<"m", "a", "x", "-", "a", "g", "e">> } }

\* resp.Header.Get("cache-control") on such a header
TextOf(h) ==
  IF h.directive THEN h.pre \o MaxAgeEq \o h.digits \o h.junk \o h.rest ELSE h.pre

WideResponses ==
  { [neterr |-> TRUE, status |-> 0, head |-> h, badjson |-> FALSE, doc |-> <<>>] :
      h \in { x \in HeaderTexts : ~x.directive /\ x.pre = <<>> } }
  \cup { [neterr |-> FALSE, status |-> s, head |-> h, badjson |-> b,
          doc |-> IF b THEN <<>> ELSE d] :
           s \in Statuses, h \in HeaderTexts, b \in BOOLEAN, d \in Docs }

\* A lone caller has found the cached Certs expired and holds the lock; the
\* record follows lines 152-164 and fetchJWKS from there.
RefreshStart(resp) ==
  [ pc |-> "get",
    resp |-> resp,                          \* what the server will answer
    Client |-> Client,                      \* j.Client
    DefaultCacheAge |-> Seconds(DefaultCacheAge),   \* j.DefaultCacheAge
    cachedCerts |-> "old",                  \* j.cachedCerts: old, new
    requests |-> 0,                         \* HTTP requests made
    cacheControl |-> <<>>,
    cacheAge |-> Word(0),
    maxAge |-> <<>>,
    res |-> <<>>,
    err |-> "nil",
    parsedCerts |-> [Keys |-> EmptyMap, Expiry |-> Word(0)],
    retCerts |-> "nil",
    retErr |-> "nil" ]

RefreshInit ==
  /\ ClientInit
  /\ \E resp \in WideResponses : fj = RefreshStart(resp)
  /\ acc = NoAccess

\* lines 185-191: the default client, the GET and its error
ClientGet ==
  /\ fj.pc = "get"
  /\ fj' = [fj EXCEPT !.Client = IF @ = "nil" THEN "default" ELSE @,
                      !.requests = @ + 1,
                      !.err = getError(fj.resp),
                      !.pc = IF getError(fj.resp) # "nil" THEN "return" ELSE "header"]
  /\ UNCHANGED <<program, acc>>

\* lines 192-196: the header, the default age, cacheAge := j.DefaultCacheAge
ReadCacheControl ==
  /\ fj.pc = "header"
  /\ fj' = [fj EXCEPT !.cacheControl = TextOf(fj.resp.head),
                      !.DefaultCacheAge = defaultCacheAge(@),
                      !.cacheAge = defaultCacheAge(fj.DefaultCacheAge),
                      !.pc = "match"]
  /\ UNCHANGED <<program, acc>>

\* lines 197-202: the regexp on a header that is not empty
FindMaxAge ==
  /\ fj.pc = "match"
  /\ LET match == IF Len(fj.cacheControl) > 0 THEN FindSubmatch(fj.cacheControl) ELSE <<>>
     IN IF Len(match) = 2
        THEN fj' = [fj EXCEPT !.maxAge = match[2], !.pc = "atoi"]
        ELSE fj' = [fj EXCEPT !.pc = "decode"]
  /\ UNCHANGED <<program, acc>>

\* lines 203-207: ParseInt, its error, the conversion to a Duration
ParseMaxAge ==
  /\ fj.pc = "atoi"
  /\ LET r == maxAgeDuration(fj.maxAge, fj.cacheAge) IN
     IF r.err # "nil"
     THEN fj' = [fj EXCEPT !.err = r.err, !.cacheAge = Word(0), !.pc = "return"]
     ELSE fj' = [fj EXCEPT !.cacheAge = r.cacheAge, !.pc = "decode"]
  /\ UNCHANGED <<program, acc>>

\* lines 212-218: the body
DecodeBody ==
  /\ fj.pc = "decode"
  /\ IF fj.resp.badjson
     THEN fj' = [fj EXCEPT !.err = "json", !.cacheAge = Word(0), !.pc = "return"]
     ELSE fj' = [fj EXCEPT !.res = fj.resp.doc, !.pc = "return"]
  /\ UNCHANGED <<program, acc>>

\* lines 153-164: GetKeys with what fetchJWKS returned; the Expiry of the
\* Certs is counted from the instant it is built
FinishRefresh ==
  /\ fj.pc = "return"
  /\ IF fj.err # "nil"
     THEN fj' = [fj EXCEPT !.retErr = fj.err, !.pc = "done"]
     ELSE fj' = [fj EXCEPT !.parsedCerts = [Keys |-> ParseKeys(EmptyMap, fj.res, 1),
                                             Expiry |-> fj.cacheAge],
                           !.cachedCerts = "new", !.retCerts = "new", !.pc = "done"]
  /\ UNCHANGED <<program, acc>>

RefreshNext ==
  \/ ClientGet
  \/ ReadCacheControl
  \/ FindMaxAge
  \/ ParseMaxAge
  \/ DecodeBody
  \/ FinishRefresh

RefreshSpec == RefreshInit /\ [][RefreshNext]_vars

\* -------------------------------------------------- the accessors of Key
\* the alphabet of base64.RawURLEncoding, in the order of the values 0..63
URLAlphabet ==
  <<"A", "B", "C", "D", "E", "F", "G", "H", "I", "J", "K", "L", "M", "N", "O", "P",
    "Q", "R", "S", "T", "U", "V", "W", "X", "Y", "Z", "a", "b", "c", "d", "e", "f",
    "g", "h", "i", "j", "k", "l", "m", "n", "o", "p", "q", "r", "s", "t", "u", "v",
    "w", "x", "y", "z", "0", "1", "2", "3", "4", "5", "6", "7", "8", "9", "-", "_">>

InAlphabet(c) == \E i \in 1..64 : URLAlphabet[i] = c
Sextet(c) == (CHOOSE i \in 1..64 : URLAlphabet[i] = c) - 1

\* the bytes of the characters of s from i on: three for every four
\* characters, one for two left over and two for three left over; one
\* character left over, or a character outside the alphabet (the padding
\* character = is outside it), is a CorruptInputError
RECURSIVE DecodeFrom(_, _)
DecodeFrom(s, i) ==
  LET n == Len(s) - i + 1
      ok(k) == \A j \in i..(i + k - 1) : InAlphabet(s[j])
      v(k) == IF k <= n THEN Sextet(s[i + k - 1]) ELSE 0
      quantum == v(1) * 262144 + v(2) * 4096 + v(3) * 64 + v(4)
      bytes == <<quantum \div 65536, (quantum \div 256) % 256, quantum % 256>>
  IN IF n = 0 THEN [err |-> FALSE, bytes |-> <<>>]
     ELSE IF n = 1 \/ ~ok(IF n < 4 THEN n ELSE 4) THEN [err |-> TRUE, bytes |-> <<>>]
     ELSE IF n < 4 THEN [err |-> FALSE, bytes |-> SubSeq(bytes, 1, n - 1)]
     ELSE LET more == DecodeFrom(s, i + 4) IN
          IF more.err THEN more ELSE [err |-> FALSE, bytes |-> bytes \o more.bytes]

\* the decoder passes over carriage returns and line feeds wherever they are
RECURSIVE SkipNewlines(_)
SkipNewlines(s) ==
  IF Len(s) = 0 THEN s
  ELSE IF s[1] \in {"\r", "\n"} THEN SkipNewlines(Tail(s))
  ELSE <<s[1]>> \o SkipNewlines(Tail(s))

\* base64.RawURLEncoding.DecodeString
DecodeString(s) == DecodeFrom(SkipNewlines(s), 1)

\* new(big.Int).SetBytes: the bytes, the most significant first, without
\* the zeros in front
RECURSIVE SetBytes(_)
SetBytes(b) == IF Len(b) > 0 /\ b[1] = 0 THEN SetBytes(Tail(b)) ELSE b

\* int(x.Int64()) of a big.Int of at most three bytes
RECURSIVE Int64Of(_, _)
Int64Of(b, i) == IF i = 0 THEN 0 ELSE 256 * Int64Of(b, i - 1) + b[i]

NoPublicKey == [N |-> <<>>, E |-> 0]

RSAIgnoresExponentError(k) ==
  LET n == DecodeString(k.N)
      e == DecodeString(k.E)
  IN IF n.err THEN [outcome |-> "panic", key |-> NoPublicKey]
     ELSE [outcome |-> "key",
           key |-> [N |-> SetBytes(n.bytes), E |-> Int64Of(e.bytes, Len(e.bytes))]]

\* Key.RSA: the public key, or the panic
RSA(k) ==
  LET n == DecodeString(k.N)
      e == DecodeString(k.E)
  IN IF n.err THEN [outcome |-> "panic", key |-> NoPublicKey]
     ELSE IF e.err THEN [outcome |-> "panic", key |-> NoPublicKey]
     ELSE [outcome |-> "key",
           key |-> [N |-> SetBytes(n.bytes), E |-> Int64Of(e.bytes, Len(e.bytes))]]

\* the texts a store may put in n and e: well formed ones of every length
\* modulo four, one character too long, padded, from the standard alphabet,
\* with a blank, with a line feed inside or at the end
Base64Texts ==
  { <<>>, <<"A", "Q", "A", "B">>, <<"3", "k", "8", "3">>, <<"A", "Q">>, <<"_", "-", "8">>,
    <<"A">>, <<"A", "Q", "A", "B", "A">>, <<"A", "Q", "=", "=">>, <<"A", "Q", "A", "B", "=">>,
    <<"3", "k", "+", "3">>, <<"3", "k", "/", "3">>, <<"A", " ", "B">>,
    <<"A", "Q", "\n", "A", "B">>, <<"3", "k", "8", "3", "\n">> }

Certificates == {"c1", "c2"}

\* the keys the accessors are called on
AccessKeys ==
  { [Alg |-> "RS256", Kty |-> "RSA", Kid |-> "A", Use |-> "sig", N |-> n, E |-> e, X5c |-> x] :
      n \in Base64Texts, e \in Base64Texts, x \in SeqsUpTo(Certificates, MaxList) }

AccessInit ==
  /\ ClientInit
  /\ fj = NoRefresh
  /\ \E k \in AccessKeys : acc = [pc |-> "call", key |-> k, pem |-> "", rsa |-> [outcome |-> "none", key |-> NoPublicKey]]

\* s := k.PEM()
CallPEM ==
  /\ acc.pc = "call"
  /\ acc' = [acc EXCEPT !.pc = "pem", !.pem = PEM(acc.key)]
  /\ UNCHANGED <<program, fj>>

\* pub := k.RSA()
CallRSA ==
  /\ acc.pc = "call"
  /\ acc' = [acc EXCEPT !.pc = "rsa", !.rsa = RSA(acc.key)]
  /\ UNCHANGED <<program, fj>>

AccessNext == CallPEM \/ CallRSA

AccessSpec == AccessInit /\ [][AccessNext]_vars

\* ------------------------------------------------------------- properties
\* GetKeys has returned to caller p
Returned(p) == pc[p] \in {"returned", "done"}

\* the position of a Certs in the order of installation, 0 if never installed
Num(c) ==
  IF \E i \in 1..Len(installed) : installed[i] = c
  THEN CHOOSE i \in 1..Len(installed) : installed[i] = c
  ELSE 0

\* C1: a GetKeys call that reads a Certs S from the client and finds the
\* clock strictly before S.Expiry returns S itself, with no error and
\* without fetching; what a caller has read under the shared lock is what
\* the client holds.
C1_FreshCacheReturned ==
  \A p \in Callers :
    /\ pc[p] = "runlock" => certs[p] = cachedCerts
    /\ (Returned(p) /\ hist[p].atCheck = "fresh") =>
         /\ hist[p].seen # Nil
         /\ retCerts[p] = hist[p].seen
         /\ retErr[p] = "nil"
         /\ hist[p].fetches = 0

\* two calls have returned the same S, the second one from the fresh cache
C1_Witness ==
  \E p, q \in Callers :
    /\ p # q /\ Returned(p) /\ Returned(q)
    /\ hist[p].fetches = 1 /\ retErr[p] = "nil"
    /\ hist[q].atCheck = "fresh" /\ hist[q].fetches = 0
    /\ retCerts[q] = retCerts[p] /\ retCerts[q] = cachedCerts

ErrorFor(failure) ==
  IF failure = "maxage" THEN "syntax" ELSE failure

\* C3: when the response is a transport error, carries a bad max-age or a
\* bad JSON body, GetKeys returns that error and no Certs, and as the
\* failed call returns (still holding the lock) j.cachedCerts is what it was
\* when the call took the lock; nothing was installed by the call.
C3_FailureLeavesCache ==
  \A p \in Callers :
    (pc[p] \in {"unlock", "returned", "done"} /\ hist[p].failure # "none") =>
      /\ retErr[p] = ErrorFor(hist[p].failure)
      /\ retCerts[p] = Nil
      /\ pc[p] = "unlock" => (cachedCerts = hist[p].atLock /\ released = Len(installed))

\* a refresh failed on a bad body while a Certs was cached
C3_Witness ==
  /\ \E p \in Callers :
       pc[p] = "unlock" /\ hist[p].failure = "json" /\ cachedCerts # Nil
         /\ hist[p].atLock = cachedCerts

\* C4: a Certs that a call read from the client and found at or past its
\* Expiry is not what that call returns; if the refresh then fails the
\* caller gets the error and no Certs.
C4_NoStaleFallback ==
  \A p \in Callers :
    (Returned(p) /\ hist[p].atCheck = "stale") =>
      /\ retCerts[p] # hist[p].seen
      /\ hist[p].fetches = 1
      /\ hist[p].failure # "none" => (retErr[p] # "nil" /\ retCerts[p] = Nil)

\* a call found an expired Certs cached, its refresh failed, and the
\* expired Certs is still the one cached
C4_Witness ==
  \E p \in Callers :
    /\ Returned(p) /\ hist[p].atCheck = "stale" /\ hist[p].failure = "transport"
    /\ cachedCerts = hist[p].seen /\ retErr[p] = "transport"

\* C5 as stated: every Certs a successful GetKeys returns has its Expiry
\* strictly later than the time the call checked it (cache hit) or built it
\* (refresh).
C5_ReturnedIsValid ==
  \A p \in Callers :
    (Returned(p) /\ retErr[p] = "nil") =>
      (hist[p].atCheck = "fresh" \/ hist[p].built = "valid")

\* C5 amended: a Certs returned from the cache has its Expiry strictly
\* later than the time of the check; a Certs returned by a refresh has
\* Expiry = build time + the TTL of the fetch, which is later than the build
\* time exactly when that TTL is positive (max-age=0 gives Expiry = build
\* time).
C5_ReturnedExpiry ==
  \A p \in Callers :
    (Returned(p) /\ retErr[p] = "nil") =>
      IF hist[p].fetches = 0
      THEN hist[p].atCheck = "fresh"
      ELSE /\ heap[retCerts[p]].Expiry = hist[p].due
           /\ (hist[p].built = "valid") <=> (hist[p].ttl >= 1)

\* a refresh with max-age=0 returned a Certs whose Expiry is the build time
C5_Witness ==
  \E p \in Callers :
    /\ Returned(p) /\ retErr[p] = "nil" /\ hist[p].fetches = 1
    /\ hist[p].ttl = 0 /\ hist[p].built = "instant"
    /\ heap[retCerts[p]].Expiry = hist[p].due

\* ---------------------------------------- properties of the built Certs
IsSigningRSA(k) == k.Use = "sig" /\ k.Kty = "RSA"

\* caller p has built a Certs from the list hist[p].raw in its current call
Built(p) == pc[p] \in {"install", "unlock", "returned", "done"} /\ hist[p].built # "none"

\* the Certs caller p has built
BuiltCerts(p) == IF pc[p] = "install" THEN parsedCerts[p] ELSE retCerts[p]

\* the kids of the RSA signing keys of a list
SigningKids(list) == { list[i].Kid : i \in { j \in 1..Len(list) : IsSigningRSA(list[j]) } }

\* C6: every entry of the mapping of every Certs has use = "sig" and
\* kty = "RSA" and is filed under its own kid; the mapping of a Certs built
\* from a list has an entry for exactly the kids that have an RSA signing key
\* in the list, and building it raised no error whatever else the list held.
C6_OnlySigningRSA ==
  /\ \A i \in 1..Len(heap) : \A kid \in DOMAIN heap[i].Keys :
       IsSigningRSA(heap[i].Keys[kid]) /\ heap[i].Keys[kid].Kid = kid
  /\ \A p \in Callers : Built(p) =>
       /\ DOMAIN heap[BuiltCerts(p)].Keys = SigningKids(hist[p].raw)
       /\ Returned(p) => retErr[p] = "nil"

\* a Certs was built from a list that holds a signing RSA key, a key of
\* another type and a key of another use, and was returned
C6_Witness ==
  \E p \in Callers :
    /\ Built(p) /\ Returned(p)
    /\ \E i, j \in 1..Len(hist[p].raw) :
         /\ hist[p].raw[i].Kty = "EC"
         /\ hist[p].raw[j].Kty = "RSA" /\ hist[p].raw[j].Use = "sig"
    /\ DOMAIN heap[retCerts[p]].Keys = {"A"}

C6_WitnessEnc ==
  \E p \in Callers :
    /\ Built(p) /\ Returned(p)
    /\ \E i \in 1..Len(hist[p].raw) : hist[p].raw[i].Use = "enc"
    /\ DOMAIN heap[retCerts[p]].Keys = {}

\* C7: GetKey fails with key-not-found exactly when GetKeys succeeded and
\* the kid is not in the mapping of the Certs it returned; when GetKeys
\* fails GetKey returns the error of GetKeys, which is never key-not-found.
C7_NotFound ==
  \A p \in Callers :
    /\ retErr[p] # "notfound"
    /\ (pc[p] = "done" /\ op[p] = "GetKey") =>
         /\ (keyErr[p] = "notfound") <=>
              (retErr[p] = "nil" /\ keyId[p] \notin DOMAIN heap[retCerts[p]].Keys)
         /\ retErr[p] # "nil" => (keyErr[p] = retErr[p] /\ cert[p] = ZeroKey)
         /\ hist[p].failure # "none" => keyErr[p] = ErrorFor(hist[p].failure)

\* GetKey has failed with key-not-found on a Certs that holds other keys
C7_Witness ==
  \E p \in Callers :
    /\ pc[p] = "done" /\ op[p] = "GetKey" /\ keyErr[p] = "notfound"
    /\ retErr[p] = "nil" /\ DOMAIN heap[retCerts[p]].Keys = {"A"} /\ keyId[p] = "Z"

\* GetKey has failed because the fetch failed, asking for a kid that is cached
C7_WitnessFetch ==
  \E p \in Callers :
    /\ pc[p] = "done" /\ op[p] = "GetKey" /\ keyErr[p] = "json"
    /\ cachedCerts # Nil /\ keyId[p] \in DOMAIN heap[cachedCerts].Keys

\* the positions of the RSA signing keys with a kid in a list
SigningAt(list, kid) == { i \in 1..Len(list) : IsSigningRSA(list[i]) /\ list[i].Kid = kid }

Last(S) == CHOOSE i \in S : \A j \in S : j <= i

\* caller p's GetKey has returned, its GetKeys having built a Certs
LookedUp(p) == pc[p] = "done" /\ op[p] = "GetKey" /\ Built(p)

\* C8 as stated: once a Certs is built from a list that holds an RSA signing
\* key with kid K, GetKey(K) succeeds and returns that key record, and its
\* PEM() is the record's x5c[0] (where it has one) between the PEM header
\* and footer.
C8_RoundTripAnyKey ==
  \A p \in Callers : LookedUp(p) =>
    \A i \in SigningAt(hist[p].raw, keyId[p]) :
      /\ keyErr[p] = "nil"
      /\ cert[p] = hist[p].raw[i]
      /\ Len(hist[p].raw[i].X5c) >= 1 =>
           PEM(cert[p]) = withPEMHeaders(hist[p].raw[i].X5c[1])

\* C8 amended: once a Certs is built from a list that holds RSA signing keys
\* with kid K, GetKey(K) succeeds and returns the last of them in the list
\* (its Kid is K, its fields are that record's); its PEM() is that record's
\* x5c[0] between the PEM header and footer when the record has a
\* certificate and the empty string when it has none.
C8_RoundTripLastKey ==
  \A p \in Callers : LookedUp(p) =>
    LET at == SigningAt(hist[p].raw, keyId[p]) IN
    at # {} =>
      LET key == hist[p].raw[Last(at)] IN
      /\ keyErr[p] = "nil"
      /\ cert[p] = key /\ cert[p].Kid = keyId[p]
      /\ PEM(cert[p]) = IF Len(key.X5c) = 0 THEN ""
                        ELSE withPEMHeaders(key.X5c[1])

\* GetKey("A") has returned the second of two signing keys with kid A
C8_Witness ==
  \E p \in Callers :
    /\ LookedUp(p) /\ keyId[p] = "A" /\ keyErr[p] = "nil"
    /\ Cardinality(SigningAt(hist[p].raw, "A")) = 2
    /\ cert[p] = hist[p].raw[2] /\ cert[p] # hist[p].raw[1]
    /\ PEM(cert[p]) = withPEMHeaders(hist[p].raw[2].X5c[1])

\* ------------------------------------------------ locking and termination
\* caller p is in the part of GetKeys that runs under the exclusive lock
InWrite(p) == pc[p] \in {"fetch", "parse", "install", "unlock"}

\* caller p is in the part of GetKeys that runs under the shared lock
InRead(p) == pc[p] \in {"read", "runlock"}

\* C9: with every goroutine scheduled and every fetch coming back, a call
\* that has started returns, whoever else is calling; and a call that has
\* returned, with a Certs or with an error, holds no part of the lock.
C9_EveryCallReturns ==
  /\ [](\A p \in Callers :
          (Returned(p) \/ pc[p] = "idle") =>
            (mutexW # p /\ mutexWriter # p /\ p \notin mutexReaders))
  /\ \A p \in Callers : (pc[p] = "rlock") ~> (pc[p] = "done")

\* a caller waits for the lock held by a caller whose fetch has failed
C9_Witness ==
  \E p, q \in Callers :
    /\ pc[p] = "unlock" /\ hist[p].failure # "none" /\ mutexWriter = p
    /\ pc[q] \in {"rlock", "lock"}

\* C10: at most one caller is between taking and releasing the exclusive
\* lock, and it holds the lock; while it is there no other caller is reading
\* j.cachedCerts; and a step that changes j.cachedCerts, j.Client or
\* j.DefaultCacheAge is a step of the caller holding the exclusive lock,
\* with no reader inside.
C10_NoDataRace ==
  /\ [](\A p \in Callers :
          /\ InWrite(p) => (mutexWriter = p /\ mutexReaders = {})
          /\ InRead(p) => (mutexWriter = Nil /\ p \in mutexReaders)
          /\ \A q \in Callers \ {p} : InWrite(p) => ~InWrite(q) /\ ~InRead(q))
  /\ [][(cachedCerts' # cachedCerts \/ Client' # Client
           \/ DefaultCacheAge' # DefaultCacheAge) =>
          /\ mutexWriter # Nil /\ mutexReaders = {}
          /\ InWrite(mutexWriter) /\ pc'[mutexWriter] # pc[mutexWriter]
          /\ \A q \in Callers \ {mutexWriter} : pc'[q] = pc[q]]_vars

\* one caller is installing its Certs while the other waits to read
C10_Witness ==
  \E p, q \in Callers :
    /\ pc[p] = "install" /\ mutexWriter = p /\ pc[q] = "rlock"
    /\ Client = "default" /\ DefaultCacheAge = TenHours

\* ------------------------------------------- properties of a lone refresh
\* a run of digits without its leading zeros
RECURSIVE Canon(_)
Canon(ds) == IF Len(ds) > 0 /\ ds[1] = "0" THEN Canon(Tail(ds)) ELSE ds

\* a <= b for two runs of digits of the same length
RECURSIVE DigitsLeq(_, _)
DigitsLeq(a, b) ==
  IF Len(a) = 0 THEN TRUE
  ELSE IF DigitVal(a[1]) # DigitVal(b[1]) THEN DigitVal(a[1]) < DigitVal(b[1])
  ELSE DigitsLeq(Tail(a), Tail(b))

\* 1<<63 - 1 in decimal
MaxInt64Digits ==
  <<"9", "2", "2", "3", "3", "7", "2", "0", "3", "6", "8", "5", "4", "7", "7", "5",
    "8", "0", "7">>

\* the run of digits is the decimal form of a non-negative 64-bit integer
InInt64(ds) ==
  /\ Len(ds) > 0
  /\ \/ Len(Canon(ds)) < Len(MaxInt64Digits)
     \/ Len(Canon(ds)) = Len(MaxInt64Digits) /\ DigitsLeq(Canon(ds), MaxInt64Digits)

\* the bytes of w divided by ten, and the remainder of the bytes from i up
RECURSIVE RemTen(_, _)
RemTen(w, i) == IF i > Len(w) THEN 0 ELSE (RemTen(w, i + 1) * 256 + w[i]) % 10
DivTen(w) == [i \in 1..Len(w) |-> (RemTen(w, i + 1) * 256 + w[i]) \div 10]

\* the decimal form of a non-negative Duration, in nanoseconds
RECURSIVE DecimalOf(_)
DecimalOf(w) ==
  IF w = Word(0) THEN <<>> ELSE DecimalOf(DivTen(w)) \o <<DigitChars[RemTen(w, 1) + 1]>>

\* a Duration is exactly n seconds, n a run of digits: it is not negative
\* and in decimal it is n followed by nine zeros
IsSeconds(w, ds) ==
  /\ ~IsNegative(w)
  /\ DecimalOf(w) = IF Canon(ds) = <<>> THEN <<>> ELSE Canon(ds) \o Zeros(9)

\* the refresh has run to its end on a response that arrived
Refreshed == fj.pc = "done" /\ ~fj.resp.neterr

\* the header carries max-age=N and nothing is stuck to the digits
PlainMaxAge == fj.resp.head.directive /\ fj.resp.head.junk = <<>>

\* C11: when the cache-control header carries max-age=N, N the decimal form
\* of a non-negative 64-bit integer, and the body decodes, the refresh
\* succeeds and the Certs it builds expires exactly N seconds after it is
\* built: the Duration is not negative and has not wrapped around.
C11_MaxAgeIsTTL ==
  (Refreshed /\ PlainMaxAge /\ InInt64(fj.resp.head.digits) /\ ~fj.resp.badjson) =>
    /\ fj.retErr = "nil"
    /\ IsSeconds(fj.parsedCerts.Expiry, fj.resp.head.digits)

\* the value of the max-age directive (the digits and what is stuck to
\* them) is not the decimal form of a non-negative 64-bit integer
Malformed(h) == h.directive /\ ~(h.junk = <<>> /\ InInt64(h.digits))

\* the TTL the client is configured with: the DefaultCacheAge it was given,
\* ten hours when it was given none
IsDefaultTTL(w) ==
  IF DefaultCacheAge = 0 THEN IsSeconds(w, <<"3", "6", "0", "0", "0">>)
  ELSE w = Seconds(DefaultCacheAge)

\* C12 as stated: when the response has no cache-control header, no max-age
\* directive or a malformed max-age value, and its body decodes, the fetch
\* succeeds and the TTL is the configured default, ten hours when the
\* default was never set.
C12_FallsBackToDefault ==
  (Refreshed /\ ~fj.resp.badjson
     /\ (~fj.resp.head.directive \/ Malformed(fj.resp.head))) =>
    /\ fj.retErr = "nil"
    /\ IsDefaultTTL(fj.parsedCerts.Expiry)

\* C12 amended: when the response has no cache-control header or no max-age
\* directive, and its body decodes, the fetch succeeds, the TTL is the
\* configured default, ten hours when the default was never set, and
\* j.DefaultCacheAge holds that default from then on; a max-age without
\* digits or past the int64 range does not fall back: the fetch fails.
C12_DefaultWithoutMaxAge ==
  /\ (Refreshed /\ ~fj.resp.badjson /\ ~fj.resp.head.directive) =>
       /\ fj.retErr = "nil" /\ fj.retCerts = "new"
       /\ IsDefaultTTL(fj.parsedCerts.Expiry)
       /\ IsDefaultTTL(fj.DefaultCacheAge)
  /\ (Refreshed /\ fj.resp.head.directive /\ ~InInt64(fj.resp.head.digits)) =>
       fj.retErr # "nil"

\* a response without a max-age directive, to a client that was given no
\* default, gave a Certs that lives ten hours
C12_Witness ==
  /\ Refreshed /\ fj.resp.head.pre = NoCache /\ ~fj.resp.head.directive
  /\ DefaultCacheAge = 0 /\ fj.retCerts = "new"
  /\ DecimalOf(fj.parsedCerts.Expiry) = <<"3", "6">> \o Zeros(12)

\* the refresh failed with the error ParseInt gave, after one request, with
\* no Certs returned and the cached Certs left as it was
FailedOnMaxAge(err) ==
  /\ fj.retErr = err /\ fj.retCerts = "nil" /\ fj.res = <<>>
  /\ fj.requests = 1 /\ fj.cachedCerts = "old"

\* C13 as stated: when the max-age directive is present and its value is
\* not the decimal form of an integer (it is empty, not a number, or out of
\* range), the refresh fails with the parse error, after a single request
\* and with nothing installed, also when the body of the response decodes.
C13_MalformedFails ==
  (Refreshed /\ Malformed(fj.resp.head) /\ ~fj.resp.badjson) =>
    \E err \in {"syntax", "range"} : FailedOnMaxAge(err)

\* C13 amended: when max-age= is followed by no digit (the value is empty
\* or starts with another character) or by digits that spell a number past
\* the int64 range, the refresh fails with the parse error (syntax for no
\* digits, range for too large a number), after a single request and with
\* nothing installed; digits in the range followed by other characters are
\* not an error: max-age is taken to be the digits and the refresh goes on
\* to the body.
C13_NoDigitsOrRangeFails ==
  /\ (Refreshed /\ fj.resp.head.directive /\ ~InInt64(fj.resp.head.digits)) =>
       FailedOnMaxAge(IF fj.resp.head.digits = <<>> THEN "syntax" ELSE "range")
  /\ (Refreshed /\ fj.resp.head.directive /\ InInt64(fj.resp.head.digits)) =>
       /\ fj.maxAge = fj.resp.head.digits
       /\ fj.retErr = IF fj.resp.badjson THEN "json" ELSE "nil"
       /\ fj.retErr = "nil" => (fj.retCerts = "new" /\ fj.cachedCerts = "new")

\* a refresh has failed on max-age=9223372036854775808, one more than int64
\* holds, and the old Certs is still cached
C13_Witness ==
  /\ Refreshed /\ fj.resp.head.directive
  /\ Len(fj.resp.head.digits) = Len(MaxInt64Digits)
  /\ ~DigitsLeq(fj.resp.head.digits, MaxInt64Digits)
  /\ ~fj.resp.badjson
  /\ FailedOnMaxAge("range")

\* a refresh has gone through on a max-age with letters stuck to its digits
C13_WitnessJunk ==
  /\ Refreshed /\ fj.resp.head.directive /\ fj.resp.head.junk # <<>>
  /\ fj.resp.head.digits # <<>> /\ fj.retCerts = "new"

\* C19: whatever the status of the response, a success or not, when its
\* body decodes and its max-age is absent or a number in the int64 range the
\* refresh succeeds and installs the Certs built from the body: the keys are
\* the RSA signing keys of the body and the lifetime is the one the header
\* gives; no error ever comes from the status.
C19_StatusIgnored ==
  /\ fj.pc # "none" => fj.err \in {"nil", "transport", "syntax", "range", "json"}
  /\ (Refreshed /\ ~fj.resp.badjson
        /\ (fj.resp.head.directive => InInt64(fj.resp.head.digits))) =>
       /\ fj.retErr = "nil" /\ fj.retCerts = "new" /\ fj.cachedCerts = "new"
       /\ fj.requests = 1
       /\ DOMAIN fj.parsedCerts.Keys = SigningKids(fj.resp.doc)
       /\ IF fj.resp.head.directive
          THEN fj.parsedCerts.Expiry = Mul64(ParseInt64(fj.resp.head.digits).val, Second)
          ELSE IsDefaultTTL(fj.parsedCerts.Expiry)

\* a response with status 500, a body that decodes and max-age=10800 has
\* been installed
C19_Witness ==
  /\ Refreshed /\ fj.resp.status = 500 /\ fj.resp.head.directive
  /\ fj.resp.head.digits = <<"1", "0", "8", "0", "0">>
  /\ fj.retErr = "nil" /\ fj.cachedCerts = "new"
  /\ DOMAIN fj.parsedCerts.Keys = {"A"}
  /\ IsSeconds(fj.parsedCerts.Expiry, <<"1", "0", "8", "0", "0">>)

\* ------------------------------------------------- properties of the build
\* C14: the Expiry of a Certs built by a refresh is the clock value at the
\* moment parseCerts builds it plus the TTL the fetch returned.  When w
\* seconds went by between the start of the call and the build, l of them
\* after the fetch had returned, the build time Expiry - TTL is at least w,
\* so the Expiry is w seconds later than start of call + TTL and l seconds
\* later than end of fetch + TTL.
C14_ExpiryFromBuild ==
  \A p \in Callers : Built(p) =>
    LET expiry == heap[BuiltCerts(p)].Expiry
        ttl == hist[p].ttl
    IN /\ expiry = hist[p].due
       /\ hist[p].lag <= hist[p].waited /\ hist[p].waited <= expiry - ttl
       /\ pc[p] = "install" => expiry - ttl <= now

\* a Certs with the configured TTL has just been built, seconds after its
\* call started and after its fetch returned: its Expiry is the present
\* clock value plus the TTL
C14_Witness ==
  \E p \in Callers :
    /\ pc[p] = "install" /\ Built(p)
    /\ hist[p].ttl = ConfiguredAge /\ hist[p].waited >= 2 /\ hist[p].lag >= 1
    /\ heap[parsedCerts[p]].Expiry = now + ConfiguredAge

\* -------------------------------------------- properties of the accessors
\* C15: PEM() of a key without certificates is the empty string; of a key
\* with certificates it is the header line, a newline, the first
\* certificate as it stands, a newline and the footer line, with nothing
\* after the footer and nothing of the other certificates; it gives a
\* string for every key.
C15_PEMFormat ==
  acc.pc = "pem" =>
    LET x5c == acc.key.X5c IN
    /\ Len(x5c) = 0 => acc.pem = ""
    /\ Len(x5c) >= 1 =>
         /\ acc.pem = "-----BEGIN CERTIFICATE-----" \o "\n" \o x5c[1] \o "\n"
                        \o "-----END CERTIFICATE-----"
         /\ acc.pem = withPEMHeaders(x5c[1])
         /\ acc.pem # withPEMHeaders(x5c[1]) \o "\n"
         /\ acc.pem # ""

\* PEM() was called on a key with two certificates and gave the first
C15_Witness ==
  /\ acc.pc = "pem" /\ acc.key.X5c = <<"c1", "c2">>
  /\ acc.pem = "-----BEGIN CERTIFICATE-----\nc1\n-----END CERTIFICATE-----"

\* PEM() was called on a key without certificates
C15_WitnessEmpty == acc.pc = "pem" /\ acc.key.X5c = <<>> /\ acc.pem = ""

\* a text is unpadded base64url: its characters are letters, digits, - or _
\* and it is not one character longer than a multiple of four
URLCharacters ==
  {"A", "B", "C", "D", "E", "F", "G", "H", "I", "J", "K", "L", "M", "N", "O", "P",
   "Q", "R", "S", "T", "U", "V", "W", "X", "Y", "Z", "a", "b", "c", "d", "e", "f",
   "g", "h", "i", "j", "k", "l", "m", "n", "o", "p", "q", "r", "s", "t", "u", "v",
   "w", "x", "y", "z", "0", "1", "2", "3", "4", "5", "6", "7", "8", "9", "-", "_"}

IsRawURL(s) == (\A i \in 1..Len(s) : s[i] \in URLCharacters) /\ Len(s) % 4 # 1

\* C20 as stated: RSA() on a key whose n or e is not unpadded base64url
\* panics: the caller gets no key and no error value; on a key whose n and e
\* both are it returns a public key (for e = AQAB the exponent 65537) and
\* does not panic.
C20_RSAPanics ==
  acc.pc = "rsa" =>
    /\ acc.rsa.outcome \in {"panic", "key"}
    /\ (~IsRawURL(acc.key.N) \/ ~IsRawURL(acc.key.E)) =>
         (acc.rsa.outcome = "panic" /\ acc.rsa.key = NoPublicKey)
    /\ (IsRawURL(acc.key.N) /\ IsRawURL(acc.key.E)) =>
         /\ acc.rsa.outcome = "key"
         /\ acc.key.E = <<"A", "Q", "A", "B">> => acc.rsa.key.E = 65537

\* a text without its carriage returns and line feeds
WithoutNewlines(s) ==
  LET keep == { i \in 1..Len(s) : s[i] \notin {"\r", "\n"} }
      nth(k) == CHOOSE i \in keep : Cardinality({ j \in keep : j <= i }) = k
  IN [k \in 1..Cardinality(keep) |-> s[nth(k)]]

\* C20 amended: RSA() panics, giving the caller no key and no error value,
\* on a key whose n or e, carriage returns and line feeds left out, is not
\* unpadded base64url; on a key whose n and e both are unpadded base64url
\* once carriage returns and line feeds are left out it returns a public key
\* (for e = AQAB the exponent 65537) and does not panic.
C20_RSAPanicsOnCorrupt ==
  acc.pc = "rsa" =>
    LET n == WithoutNewlines(acc.key.N)
        e == WithoutNewlines(acc.key.E)
    IN /\ acc.rsa.outcome \in {"panic", "key"}
       /\ (~IsRawURL(n) \/ ~IsRawURL(e)) =>
            (acc.rsa.outcome = "panic" /\ acc.rsa.key = NoPublicKey)
       /\ (IsRawURL(n) /\ IsRawURL(e)) =>
            /\ acc.rsa.outcome = "key"
            /\ e = <<"A", "Q", "A", "B">> => acc.rsa.key.E = 65537
            /\ n = <<"3", "k", "8", "3">> => acc.rsa.key.N = <<222, 79, 55>>

\* RSA() has panicked on a key with a good n and a padded e
C20_Witness ==
  /\ acc.pc = "rsa" /\ acc.rsa.outcome = "panic"
  /\ acc.key.N = <<"3", "k", "8", "3">> /\ acc.key.E = <<"A", "Q", "=", "=">>

\* RSA() has returned the key of a well-formed n and e
C20_WitnessKey ==
  /\ acc.pc = "rsa" /\ acc.rsa.outcome = "key"
  /\ acc.key.N = <<"3", "k", "8", "3">> /\ acc.key.E = <<"A", "Q", "A", "B">>
  /\ acc.rsa.key = [N |-> <<222, 79, 55>>, E |-> 65537]

\* -------------------------------------------- properties of the key lists
\* C18: when the list a Certs is built from holds one or several RSA signing
\* keys with the same kid, the build raises no error and the mapping holds
\* under that kid the one that comes last in the list.
C18_LastWriteWins ==
  \A p \in Callers : Built(p) =>
    /\ Returned(p) => retErr[p] = "nil"
    /\ \A kid \in SigningKids(hist[p].raw) :
         /\ kid \in DOMAIN heap[BuiltCerts(p)].Keys
         /\ heap[BuiltCerts(p)].Keys[kid] = hist[p].raw[Last(SigningAt(hist[p].raw, kid))]

\* a Certs was built from a list with two RSA signing keys of kid A and
\* holds the second of them
C18_Witness ==
  \E p \in Callers :
    /\ Built(p) /\ Len(hist[p].raw) = 2
    /\ SigningAt(hist[p].raw, "A") = {1, 2} /\ hist[p].raw[1] # hist[p].raw[2]
    /\ heap[BuiltCerts(p)].Keys["A"] = hist[p].raw[2]

\* ------------------------------------------------ properties of the fetches
\* C16: a call makes no HTTP request when the Certs it read was fresh and
\* exactly one when it read none or an expired one, whether the request
\* succeeds or fails and whatever the cache holds by the time the call has
\* the exclusive lock: the successful call returns and caches a Certs it
\* built itself, never the one it found cached on taking the lock.
C16_OneFetchPerCall ==
  \A p \in Callers :
    /\ hist[p].fetches <= 1
    /\ pc[p] \in {"lock", "lockwait", "fetch"} =>
         (hist[p].atCheck \in {"absent", "stale"} /\ hist[p].fetches = 0)
    /\ pc[p] \in {"parse", "install", "unlock"} => hist[p].fetches = 1
    /\ Returned(p) => hist[p].fetches = IF hist[p].atCheck = "fresh" THEN 0 ELSE 1
    /\ (Returned(p) /\ hist[p].failure # "none") => (hist[p].fetches = 1 /\ retErr[p] # "nil")
    /\ (pc[p] \in {"unlock", "returned", "done"} /\ hist[p].fetches = 1 /\ retErr[p] = "nil") =>
         /\ retCerts[p] # hist[p].atLock
         /\ Num(retCerts[p]) > Num(hist[p].atLock)
         /\ pc[p] = "unlock" => cachedCerts = retCerts[p]

\* two callers both found no Certs cached; the first fetched and installed
\* one that is still fresh, the second found it cached when it got the
\* lock and all the same fetched and installed its own
C16_Witness ==
  \E p, q \in Callers :
    /\ p # q /\ Returned(p) /\ pc[q] = "unlock"
    /\ hist[p].atCheck = "absent" /\ hist[q].atCheck = "absent"
    /\ hist[p].fetches = 1 /\ hist[q].fetches = 1
    /\ retErr[p] = "nil" /\ retErr[q] = "nil"
    /\ hist[q].atLock = retCerts[p] /\ Fresh(retCerts[p], now)
    /\ cachedCerts = retCerts[q] /\ retCerts[q] # retCerts[p]
    /\ installed = <<retCerts[p], retCerts[q]>>

\* ------------------------------------------------ properties of the cache
\* the Certs a pointer of the program still reaches
Reachable == {cachedCerts} \cup UNION { Refs(q) : q \in Callers }

\* caller p is storing the Certs it built, after a fetch that succeeded
Installs(p) ==
  /\ pc[p] = "install" /\ pc'[p] = "unlock"
  /\ hist[p].fetches = 1 /\ hist[p].failure = "none" /\ retErr'[p] = "nil"
  /\ cachedCerts' = parsedCerts[p] /\ retCerts'[p] = parsedCerts[p]
  /\ Num(parsedCerts[p]) = 0

\* C17: j.cachedCerts changes only in the step in which a caller whose
\* fetch succeeded stores the Certs it has just built, a Certs never cached
\* before; every other step (a cache hit, the lookup of GetKey, a failed
\* refresh, the clock) leaves it as it is.  No step changes the mapping or
\* the Expiry of a Certs that exists, and once a Certs is cached
\* j.cachedCerts is never nil again.
C17_CacheChangesOnInstall ==
  [][/\ cachedCerts' # cachedCerts => \E p \in Callers : Installs(p)
     /\ cachedCerts # Nil => cachedCerts' # Nil
     /\ \A i \in 1..Len(heap) :
          /\ heap'[i] \in {heap[i], Freed}
          /\ (i \in Reachable' \ {Nil}) => heap'[i] = heap[i]
     /\ \A p \in Callers :
          (pc[p] \in {"check", "returned"} /\ pc'[p] # pc[p]) => cachedCerts' = cachedCerts
    ]_vars

\* a second Certs has taken the place of the first, which a caller still
\* holds, and a lookup of GetKey has run on it
C17_Witness ==
  \E p, q \in Callers :
    /\ Len(installed) = 2 /\ cachedCerts = installed[2] /\ installed[1] # installed[2]
    /\ pc[p] = "done" /\ op[p] = "GetKey" /\ retCerts[p] = installed[1]
    /\ heap[installed[1]] # Freed
    /\ pc[q] \in {"unlock", "returned", "done"} /\ retCerts[q] = installed[2]

====
